---- MODULE Spec2Model ----
(***************************************************************************)
(* Battleship (bataille_navale): the Ship and Board model, the GameManager *)
(* and the AI player, as state machines over the Python objects' fields.   *)
(*                                                                         *)
(* A Python object is a record of its fields, a list is a sequence, a      *)
(* position (x, y) is the tuple <<x, y>>.  A method is an operator from    *)
(* the object (and its arguments) to the object after the call and the     *)
(* value returned or the exception raised; an action applies one method    *)
(* call to the state.                                                      *)
(***************************************************************************)
EXTENDS Integers, Sequences, FiniteSets, TLC

VARIABLES
    board,   \* a Board on which receive_shot and place_ship_randomly are called
    last,    \* the last call made and what it returned or raised: [op, ret]
    ship,    \* a Ship of its own, on which place and hit are called
    player_board,  \* GameManager.player_board, the board the AI fires at
    ai_player,     \* GameManager.ai_player: [last_hit, hit_stack, game_data]
    hunt,          \* a HuntTargetStrategy: [hits, hit_stack, direction]
    ai_board,      \* GameManager.ai_board, the board the player fires at
    turn,          \* GameManager.turn
    gui            \* the BattleshipGUI: its flags and the timers it has pending

vars == <<board, last, ship, player_board, ai_player, hunt, ai_board, turn, gui>>

(***************************************************************************)
(* Bounds of the model                                                     *)
(***************************************************************************)
\* Board(size): the boards built have a size in 1..MaxSize (the game's is 10)
MaxSize == 3
\* at most MaxShots positions are recorded in a board's shots (or a ship's
\* hits), except that a board of at most MaxFull cells is shot at to the end
MaxShots == 3
MaxFull == 4
\* receive_shot on any pair of integers: the boards have a size in 1..MaxSizeAnyArg
MaxSizeAnyArg == 2
\* Ship.place is called on the lists of at most MaxListLen cells of a grid of
\* size ShipGrid
MaxListLen == 3
ShipGrid == 2
\* the size of the board the AI fires at (the game's is 10)
AiBoardSize == 3
\* the last FleetCount entries of ships_config are the ships to place
FleetCount == 2
MaxDrawRow == 1
MaxGuiTurns == 2
MaxNewGames == 1
MaxSweepCells == 1
\* evaluate_moves is applied to the boards of size 1..MaxEvalSize with any
\* set of cells shot, and with one row of an earlier game in game_data on the
\* boards of size at most MaxHistSize
MaxEvalSize == 4
MaxHistSize == 2
\* the strategies of strategies.py are evaluated on boards with at most
\* MaxSignalShots shots
MaxSignalShots == 1
\* a game on two boards of size AiBoardSize: at most MaxPlayerTurns turns of
\* the player, at the first MaxPlayerCells cells of the AI's board, and at
\* most MaxAiTurns turns of the AI
MaxPlayerTurns == 2
MaxPlayerCells == 2
MaxAiTurns == 1
\* HistoricalDataStrategy reads at most MaxHistRows rows of earlier games
MaxHistRows == 2
\* a HuntTargetStrategy follows the shots at a board of size at most
\* HuntSize carrying the fleet: at most MaxHuntShots shots, those chosen
\* by the caller among the first MaxHuntCells cells of the board
HuntSize == 4
MaxHuntShots == 3
MaxHuntCells == 8

(***************************************************************************)
(* Python helpers                                                          *)
(***************************************************************************)
\* x in s, for a list s
InList(x, s) == \E i \in DOMAIN s : s[i] = x

\* the elements of a list
Elems(s) == {s[i] : i \in DOMAIN s}

\* min of a non-empty set of integers
MinOf(S) == CHOOSE m \in S : \A k \in S : m <= k

\* numpy's index into an axis of length n: -n..-1 count from the end,
\* anything else outside 0..n-1 raises IndexError
IndexOK(n, i) == i >= -n /\ i < n
NpIndex(n, i) == IF i < 0 THEN i + n ELSE i

(***************************************************************************)
(* Ship  (src/models/ship.py)                                              *)
(***************************************************************************)
\* Ship.__init__
NewShip(name, size) ==
    [name |-> name, size |-> size, positions |-> <<>>, hits |-> <<>>]

\* Ship.is_placed
is_placed(s) == Len(s.positions) = s.size

\* is_sunk one hit early
is_sunk_OneShort(s) == Len(s.hits) >= s.size - 1

\* Ship.is_sunk
is_sunk(s) == Len(s.hits) = s.size

\* place without the length test
place_NoLengthCheck(s, positions) ==
    [ship |-> [s EXCEPT !.positions = positions], raised |-> "none"]

\* Ship.place: raises ValueError on a list of the wrong length
place(s, positions) ==
    IF Len(positions) # s.size
    THEN [ship |-> s, raised |-> "ValueError"]
    ELSE [ship |-> [s EXCEPT !.positions = positions], raised |-> "none"]

\* hit without the test that the position was not hit before
hit_CountsRepeats(s, position) ==
    IF InList(position, s.positions)
    THEN [ship |-> [s EXCEPT !.hits = Append(@, position)], ret |-> TRUE]
    ELSE [ship |-> s, ret |-> FALSE]

\* Ship.hit: records a new hit on one of the ship's positions
hit(s, position) ==
    IF InList(position, s.positions) /\ ~InList(position, s.hits)
    THEN [ship |-> [s EXCEPT !.hits = Append(@, position)], ret |-> TRUE]
    ELSE [ship |-> s, ret |-> FALSE]

(***************************************************************************)
(* Board  (src/models/board.py)                                            *)
(***************************************************************************)
\* the cells of a grid of size n
Cells(n) == (0 .. n - 1) \X (0 .. n - 1)

\* Board.__init__: grid = np.zeros((size, size)), no ships, no shots
NewBoard(n) ==
    [size |-> n, grid |-> [c \in Cells(n) |-> 0], ships |-> <<>>, shots |-> <<>>]

\* a grid write that writes nothing
SetCell_NoWrite(b, x, y, v) ==
    IF IndexOK(b.size, x) /\ IndexOK(b.size, y)
    THEN [grid |-> b.grid, raised |-> "none"]
    ELSE [grid |-> b.grid, raised |-> "IndexError"]

\* self.grid[x][y] = v, with numpy's indexing
SetCell(b, x, y, v) ==
    IF IndexOK(b.size, x) /\ IndexOK(b.size, y)
    THEN [grid |-> [b.grid EXCEPT ![<<NpIndex(b.size, x), NpIndex(b.size, y)>>] = v],
          raised |-> "none"]
    ELSE [grid |-> b.grid, raised |-> "IndexError"]

\* Board.add_ship
add_ship(b, s) ==
    [b EXCEPT !.ships = Append(@, s),
              !.grid = [c \in DOMAIN b.grid |->
                           IF InList(c, s.positions) THEN 1 ELSE b.grid[c]]]

\* the runs place_ship_randomly can draw for a ship of length len:
\* orientation 0 (horizontal) and 1 (vertical)
Candidates(n, len) ==
    {[i \in 1 .. len |-> <<x, y + i - 1>>] : x \in 0 .. n - 1, y \in 0 .. n - len}
    \cup
    {[i \in 1 .. len |-> <<x + i - 1, y>>] : x \in 0 .. n - len, y \in 0 .. n - 1}

\* a validity test that accepts every run
RunValid_NoTest(b, positions) == TRUE

\* the validity test of place_ship_randomly: every cell of the run has grid 0
RunValid(b, positions) == \A i \in DOMAIN positions : b.grid[positions[i]] = 0

\* Board.place_ship_randomly: the outcomes of the up to max_attempts random
\* draws.  A valid run drawn is placed; the call returns False when every
\* draw was an invalid run, which needs an invalid run to exist;
\* random.randint(0, size - ship.size) raises ValueError on an empty range.
place_ship_randomly(b, s) ==
    IF s.size > b.size
    THEN {[board |-> b, ship |-> s, ret |-> <<"ValueError">>]}
    ELSE {[board |-> add_ship(b, place(s, c).ship), ship |-> place(s, c).ship,
           ret |-> <<"True">>] : c \in {r \in Candidates(b.size, s.size) : RunValid(b, r)}}
         \cup
         (IF \E r \in Candidates(b.size, s.size) : ~RunValid(b, r)
          THEN {[board |-> b, ship |-> s, ret |-> <<"False">>]}
          ELSE {})

\* receive_shot appending to shots before the test for a repeated position
receive_shot_AppendFirst(b, position) ==
    IF InList(position, b.shots)
    THEN [board |-> [b EXCEPT !.shots = Append(@, position)], ret |-> <<"already_shot">>]
    ELSE LET b1 == [b EXCEPT !.shots = Append(@, position)]
             hitters == {i \in DOMAIN b.ships : hit(b.ships[i], position).ret}
         IN  IF hitters # {}
             THEN LET i == MinOf(hitters)
                      s2 == hit(b.ships[i], position).ship
                      b2 == [b1 EXCEPT !.ships[i] = s2,
                                       !.grid = SetCell(b1, position[1], position[2], 2).grid]
                  IN  [board |-> b2,
                       ret |-> IF is_sunk(s2) THEN <<"sunk", s2.name>> ELSE <<"hit">>]
             ELSE [board |-> [b1 EXCEPT !.grid = SetCell(b1, position[1], position[2], -1).grid],
                   ret |-> <<"miss">>]

\* Board.receive_shot: the board after the call and the value returned
\* (<<"miss">>, <<"hit">>, <<"already_shot">>, <<"sunk", name>>) or the
\* exception raised by the grid write
receive_shot(b, position) ==
    LET x == position[1]
        y == position[2]
        b1 == [b EXCEPT !.shots = Append(@, position)]
        hitters == {i \in DOMAIN b.ships : hit(b.ships[i], position).ret}
    IN  IF InList(position, b.shots)
        THEN [board |-> b, ret |-> <<"already_shot">>]
        ELSE IF hitters # {}
        THEN LET i == MinOf(hitters)
                 s2 == hit(b.ships[i], position).ship
                 w == SetCell(b1, x, y, 2)
                 b2 == [b1 EXCEPT !.ships[i] = s2, !.grid = w.grid]
             IN  IF w.raised # "none"
                 THEN [board |-> b2, ret |-> <<w.raised>>]
                 ELSE IF is_sunk(s2)
                 THEN [board |-> b2, ret |-> <<"sunk", s2.name>>]
                 ELSE [board |-> b2, ret |-> <<"hit">>]
        ELSE LET w == SetCell(b1, x, y, -1)
             IN  IF w.raised # "none"
                 THEN [board |-> b1, ret |-> <<w.raised>>]
                 ELSE [board |-> [b1 EXCEPT !.grid = w.grid], ret |-> <<"miss">>]

\* all_ships_sunk with any() for all()
all_ships_sunk_Any(b) == \E i \in DOMAIN b.ships : is_sunk(b.ships[i])

\* Board.all_ships_sunk
all_ships_sunk(b) == \A i \in DOMAIN b.ships : is_sunk(b.ships[i])

\* the positions of a grid of size n in the order of the two nested loops
RowMajor(n) == [k \in 1 .. n * n |-> <<(k - 1) \div n, (k - 1) % n>>]

\* Board.get_valid_moves: the list of the positions not in shots
NotShot(b, p) == ~InList(p, b.shots)

\* get_valid_moves leaving out the last row
get_valid_moves_ShortRange(b) ==
    SelectSeq(SubSeq(RowMajor(b.size), 1, b.size * (b.size - 1)), LAMBDA p : NotShot(b, p))

get_valid_moves(b) == SelectSeq(RowMajor(b.size), LAMBDA p : NotShot(b, p))

(***************************************************************************)
(* GameManager.ships_config  (src/models/game_manager.py)                  *)
(***************************************************************************)
ships_config ==
    << [name |-> "Porte-avions", size |-> 5],
       [name |-> "Croiseur", size |-> 4],
       [name |-> "Contre-torpilleur", size |-> 3],
       [name |-> "Sous-marin", size |-> 3],
       [name |-> "Torpilleur", size |-> 2] >>

\* the ships the model places: the last FleetCount entries of ships_config
Fleet == SubSeq(ships_config, Len(ships_config) - FleetCount + 1, Len(ships_config))

(***************************************************************************)
(* AIPlayer  (src/ai/ai_player.py)                                         *)
(*                                                                         *)
(* game_data is the list of the rows recorded, a row being [turn, player,  *)
(* position, result, game_state]: the position "x,y" is kept as <<x, y>>   *)
(* and the game_state "x,y;x,y;..." as the list of positions it is joined  *)
(* from (game_id and timestamp are written and never read by the AI).      *)
(* moves_evaluation is rebuilt by every evaluate_moves call and is its     *)
(* local value here.                                                       *)
(***************************************************************************)
\* None
None == <<>>

\* AIPlayer.__init__, with no data file yet: an empty DataFrame
NewAIPlayer == [last_hit |-> None, hit_stack |-> <<>>, game_data |-> <<>>]

Abs(i) == IF i < 0 THEN -i ELSE i

\* distance_to_center of evaluate_moves
distance_to_center(b, move) ==
    Abs(move[1] - b.size \div 2) + Abs(move[2] - b.size \div 2)

\* AIPlayer._get_current_game_state: the shots, joined
get_current_game_state(b) == b.shots

\* game_state.str.contains(current_game_state): on strings of one-digit
\* coordinates "x,y;x,y" a match is a run of consecutive positions
StrContains(state, current) ==
    \E k \in 0 .. Len(state) - Len(current) :
       SubSeq(state, k + 1, k + Len(current)) = current

\* the rows of similar games where the move was played
matching_moves(ai, b, move) ==
    SelectSeq(ai.game_data,
              LAMBDA r : StrContains(r.game_state, get_current_game_state(b))
                         /\ r.position = move)

\* how many rows have a result in the set
CountResults(rows, results) == Cardinality({i \in DOMAIN rows : rows[i].result \in results})

\* moves_evaluation[move] as the fraction ScoreNum / ScoreDen, twice the
\* score: - distance_to_center * 0.5, + hit_rate * 10 when the move has
\* historical hits or misses, + 1 on the checkerboard
HistHits(ai, b, move) == CountResults(matching_moves(ai, b, move), {"hit", "sunk"})
HistMisses(ai, b, move) == CountResults(matching_moves(ai, b, move), {"miss"})
ScoreDen(ai, b, move) ==
    IF HistHits(ai, b, move) + HistMisses(ai, b, move) > 0
    THEN HistHits(ai, b, move) + HistMisses(ai, b, move)
    ELSE 1
ScoreNum_HeavyParity(ai, b, move) ==
    ( (IF (move[1] + move[2]) % 2 = 0 THEN 27 ELSE 0) - distance_to_center(b, move) )
       * ScoreDen(ai, b, move)
    + 20 * HistHits(ai, b, move)
ScoreNum(ai, b, move) ==
    ( (IF (move[1] + move[2]) % 2 = 0 THEN 2 ELSE 0) - distance_to_center(b, move) )
       * ScoreDen(ai, b, move)
    + 20 * HistHits(ai, b, move)

\* max of a non-empty set of integers
MaxOf(S) == CHOOSE m \in S : \A k \in S : m >= k

\* best_move taking the last of the moves that no move beats
best_move_LastMax(ai, b) ==
    LET valid_moves == get_valid_moves(b)
        num == [i \in DOMAIN valid_moves |-> ScoreNum(ai, b, valid_moves[i])] \o <<>>
        den == [i \in DOMAIN valid_moves |-> ScoreDen(ai, b, valid_moves[i])] \o <<>>
        best == {i \in DOMAIN valid_moves :
                    \A j \in DOMAIN valid_moves : ~(num[j] * den[i] > num[i] * den[j])}
    IN  valid_moves[MaxOf(best)]

\* max(self.moves_evaluation.items(), key=...)[0]: the first move, in the
\* order of valid_moves, that no move beats.  num[i] / den[i] is twice
\* moves_evaluation[valid_moves[i]]; \o <<>> makes the two lists explicit
\* tuples, so that each score is computed once.
best_move(ai, b) ==
    LET valid_moves == get_valid_moves(b)
        num == [i \in DOMAIN valid_moves |-> ScoreNum(ai, b, valid_moves[i])] \o <<>>
        den == [i \in DOMAIN valid_moves |-> ScoreDen(ai, b, valid_moves[i])] \o <<>>
        best == {i \in DOMAIN valid_moves :
                    \A j \in DOMAIN valid_moves : ~(num[j] * den[i] > num[i] * den[j])}
    IN  valid_moves[MinOf(best)]

\* evaluate_moves returning the popped move without the test that it is valid
evaluate_moves_NoValidTest(ai, b) ==
    LET n == Len(ai.hit_stack)
    IN  IF n > 0
        THEN [ai |-> [ai EXCEPT !.hit_stack = SubSeq(@, 1, n - 1)],
              ret |-> ai.hit_stack[n], raised |-> "none"]
        ELSE IF get_valid_moves(b) = <<>>
        THEN [ai |-> ai, ret |-> None, raised |-> "ValueError"]
        ELSE [ai |-> ai, ret |-> best_move(ai, b), raised |-> "none"]

\* AIPlayer.evaluate_moves: the AI after the call (hit_stack popped) and the
\* move returned; max() of no move raises ValueError
evaluate_moves(ai, b) ==
    LET valid_moves == get_valid_moves(b)
        n == Len(ai.hit_stack)
        ai1 == IF n > 0 THEN [ai EXCEPT !.hit_stack = SubSeq(@, 1, n - 1)] ELSE ai
    IN  IF n > 0 /\ InList(ai.hit_stack[n], valid_moves)
        THEN [ai |-> ai1, ret |-> ai.hit_stack[n], raised |-> "none"]
        ELSE IF valid_moves = <<>>
        THEN [ai |-> ai1, ret |-> None, raised |-> "ValueError"]
        ELSE [ai |-> ai1, ret |-> best_move(ai, b), raised |-> "none"]

\* the orders random.shuffle can leave a list in
Shuffles(s) ==
    {[i \in 1 .. Len(s) |-> s[f[i]]] : f \in Permutations(1 .. Len(s))}

\* the adjacent positions of process_shot_result, in the grid and not shot
adjacent_positions(position) ==
    << <<position[1] + 1, position[2]>>, <<position[1] - 1, position[2]>>,
       <<position[1], position[2] + 1>>, <<position[1], position[2] - 1>> >>
AdjacentOpen(b, pos) ==
    /\ 0 <= pos[1] /\ pos[1] < b.size
    /\ 0 <= pos[2] /\ pos[2] < b.size
    /\ ~InList(pos, b.shots)

\* AIPlayer.process_shot_result: the AI after the call, one per shuffle
process_shot_result(ai, position, result, b) ==
    IF result = <<"hit">>
    THEN {[ai EXCEPT !.last_hit = position, !.hit_stack = s] :
             s \in Shuffles(ai.hit_stack
                            \o SelectSeq(adjacent_positions(position),
                                         LAMBDA pos : AdjacentOpen(b, pos)))}
    ELSE IF result[1] = "sunk"
    THEN {[ai EXCEPT !.last_hit = None, !.hit_stack = <<>>]}
    ELSE {ai}

(***************************************************************************)
(* Strategies  (src/ai/strategies.py)                                      *)
(*                                                                         *)
(* A float returned is the fraction num / den, or the exception raised.    *)
(***************************************************************************)
\* HuntTargetStrategy.__init__ (direction None is "None")
NewHunt == [hits |-> <<>>, hit_stack |-> <<>>, direction |-> "None"]

\* the adjacent positions listed by process_result, whatever their state
adjacent_targets_Unfiltered(position, b) == adjacent_positions(position)

\* the adjacent positions process_result pushes: in the grid and not shot
adjacent_targets(position, b) ==
    SelectSeq(adjacent_positions(position), LAMBDA pos : AdjacentOpen(b, pos))

\* HuntTargetStrategy.identify_direction: the direction after the call
identify_direction(h) ==
    IF \A i \in DOMAIN h.hits : h.hits[i][1] = h.hits[1][1]
    THEN [h EXCEPT !.direction = "horizontal"]
    ELSE IF \A i \in DOMAIN h.hits : h.hits[i][2] = h.hits[1][2]
    THEN [h EXCEPT !.direction = "vertical"]
    ELSE h

\* add_directional_targets pushing onto the stack it finds
add_directional_targets_KeepStack(h, position, b) ==
    LET x == position[1]
        y == position[2]
        min_y == MinOf({h.hits[i][2] : i \in DOMAIN h.hits})
        max_y == MaxOf({h.hits[i][2] : i \in DOMAIN h.hits})
        min_x == MinOf({h.hits[i][1] : i \in DOMAIN h.hits})
        max_x == MaxOf({h.hits[i][1] : i \in DOMAIN h.hits})
        ends == IF h.direction = "horizontal"
                THEN << <<x, min_y - 1>>, <<x, max_y + 1>> >>
                ELSE IF h.direction = "vertical"
                THEN << <<min_x - 1, y>>, <<max_x + 1, y>> >>
                ELSE <<>>
        open(pos) == /\ IF h.direction = "horizontal"
                        THEN 0 <= pos[2] /\ pos[2] < b.size
                        ELSE 0 <= pos[1] /\ pos[1] < b.size
                     /\ ~InList(pos, b.shots)
    IN  [h EXCEPT !.hit_stack = @ \o SelectSeq(ends, LAMBDA pos : open(pos))]

\* HuntTargetStrategy.add_directional_targets: the stack is emptied, then
\* the cell before the first hit and the cell after the last one along the
\* direction, in the row (column) of position, are pushed when they are in
\* the grid and not shot
add_directional_targets(h, position, b) ==
    LET x == position[1]
        y == position[2]
        min_y == MinOf({h.hits[i][2] : i \in DOMAIN h.hits})
        max_y == MaxOf({h.hits[i][2] : i \in DOMAIN h.hits})
        min_x == MinOf({h.hits[i][1] : i \in DOMAIN h.hits})
        max_x == MaxOf({h.hits[i][1] : i \in DOMAIN h.hits})
        ends == IF h.direction = "horizontal"
                THEN << <<x, min_y - 1>>, <<x, max_y + 1>> >>
                ELSE IF h.direction = "vertical"
                THEN << <<min_x - 1, y>>, <<max_x + 1, y>> >>
                ELSE <<>>
        open(pos) == /\ IF h.direction = "horizontal"
                        THEN 0 <= pos[2] /\ pos[2] < b.size
                        ELSE 0 <= pos[1] /\ pos[1] < b.size
                     /\ ~InList(pos, b.shots)
    IN  [h EXCEPT !.hit_stack = SelectSeq(ends, LAMBDA pos : open(pos))]

\* HuntTargetStrategy.add_opposite_direction_targets: in the row (column) of
\* the first hit, the end not shot yet when the other end is shot
add_opposite_direction_targets(h, b) ==
    IF h.hits = <<>>
    THEN h
    ELSE LET x == h.hits[1][1]
             y == h.hits[1][2]
             min_y == MinOf({h.hits[i][2] : i \in DOMAIN h.hits})
             max_y == MaxOf({h.hits[i][2] : i \in DOMAIN h.hits})
             min_x == MinOf({h.hits[i][1] : i \in DOMAIN h.hits})
             max_x == MaxOf({h.hits[i][1] : i \in DOMAIN h.hits})
             lo == IF h.direction = "horizontal" THEN <<x, min_y - 1>> ELSE <<min_x - 1, y>>
             hi == IF h.direction = "horizontal" THEN <<x, max_y + 1>> ELSE <<max_x + 1, y>>
             lo_in == IF h.direction = "horizontal"
                      THEN 0 <= min_y - 1 /\ min_y - 1 < b.size
                      ELSE 0 <= min_x - 1 /\ min_x - 1 < b.size
             hi_in == IF h.direction = "horizontal"
                      THEN 0 <= max_y + 1 /\ max_y + 1 < b.size
                      ELSE 0 <= max_x + 1 /\ max_x + 1 < b.size
         IN  IF h.direction \notin {"horizontal", "vertical"}
             THEN h
             ELSE IF InList(hi, b.shots) /\ ~InList(lo, b.shots) /\ lo_in
             THEN [h EXCEPT !.hit_stack = <<lo>>]
             ELSE IF InList(lo, b.shots) /\ ~InList(hi, b.shots) /\ hi_in
             THEN [h EXCEPT !.hit_stack = <<hi>>]
             ELSE [h EXCEPT !.hit_stack = <<>>]

\* process_result forgetting the hits of a sunk ship but not the direction
process_result_SunkKeepsDirection(h, position, result, b) ==
    IF result = <<"hit">>
    THEN LET h1 == [h EXCEPT !.hits = Append(@, position)]
             h2 == IF Len(h1.hits) >= 2 THEN identify_direction(h1) ELSE h1
         IN  IF h2.direction # "None"
             THEN add_directional_targets(h2, position, b)
             ELSE [h2 EXCEPT !.hit_stack = @ \o adjacent_targets(position, b)]
    ELSE IF result = <<"miss">>
    THEN IF h.direction # "None" /\ Len(h.hits) >= 2
         THEN add_opposite_direction_targets(h, b)
         ELSE h
    ELSE IF result[1] = "sunk"
    THEN [h EXCEPT !.hits = <<>>, !.hit_stack = <<>>]
    ELSE h

\* HuntTargetStrategy.process_result: the strategy after the result of the
\* shot at position on board b
process_result(h, position, result, b) ==
    IF result = <<"hit">>
    THEN LET h1 == [h EXCEPT !.hits = Append(@, position)]
             h2 == IF Len(h1.hits) >= 2 THEN identify_direction(h1) ELSE h1
         IN  IF h2.direction # "None"
             THEN add_directional_targets(h2, position, b)
             ELSE [h2 EXCEPT !.hit_stack = @ \o adjacent_targets(position, b)]
    ELSE IF result = <<"miss">>
    THEN IF h.direction # "None" /\ Len(h.hits) >= 2
         THEN add_opposite_direction_targets(h, b)
         ELSE h
    ELSE IF result[1] = "sunk"
    THEN NewHunt
    ELSE h

\* get_next_target returning what it pops, shot or not
get_next_target_NoValidTest(h, b) ==
    LET n == Len(h.hit_stack)
    IN  IF n > 0
        THEN [hunt |-> [h EXCEPT !.hit_stack = SubSeq(@, 1, n - 1)], ret |-> h.hit_stack[n]]
        ELSE [hunt |-> h, ret |-> None]

\* HuntTargetStrategy.get_next_target: the strategy after the call (one
\* position popped) and the target returned, None unless the position
\* popped is a valid move
get_next_target(h, b) ==
    LET n == Len(h.hit_stack)
    IN  IF n > 0
        THEN [hunt |-> [h EXCEPT !.hit_stack = SubSeq(@, 1, n - 1)],
              ret |-> IF InList(h.hit_stack[n], get_valid_moves(b))
                      THEN h.hit_stack[n] ELSE None]
        ELSE [hunt |-> h, ret |-> None]

\* a center-weight score measured from the corner (0, 0)
CenterWeightStrategy_evaluate_move_FromCorner(move, b) ==
    LET distance == Abs(move[1]) + Abs(move[2])
        max_distance == b.size - 1
    IN  IF max_distance = 0
        THEN [num |-> 0, den |-> 1, raised |-> "ZeroDivisionError"]
        ELSE [num |-> max_distance - distance, den |-> max_distance, raised |-> "none"]

\* CenterWeightStrategy.evaluate_move: (max_distance - distance) / max_distance
CenterWeightStrategy_evaluate_move(move, b) ==
    LET center_x == b.size \div 2
        center_y == b.size \div 2
        distance == Abs(move[1] - center_x) + Abs(move[2] - center_y)
        max_distance == b.size - 1
    IN  IF max_distance = 0
        THEN [num |-> 0, den |-> 1, raised |-> "ZeroDivisionError"]
        ELSE [num |-> max_distance - distance, den |-> max_distance, raised |-> "none"]

\* a checkerboard score on the product of the coordinates
CheckerboardStrategy_evaluate_move_Product(move, b) ==
    [num |-> IF (move[1] * move[2]) % 2 = 0 THEN 1 ELSE 0, den |-> 1, raised |-> "none"]

\* CheckerboardStrategy.evaluate_move: 1.0 if (x + y) % 2 == 0 else 0.0
CheckerboardStrategy_evaluate_move(move, b) ==
    [num |-> IF (move[1] + move[2]) % 2 = 0 THEN 1 ELSE 0, den |-> 1, raised |-> "none"]

\* the historical score dividing by hits + misses without testing it
HistoricalDataStrategy_evaluate_move_NoZeroTest(move, b, data) ==
    LET similar_games == SelectSeq(data, LAMBDA r : StrContains(r.game_state, b.shots))
        matching == SelectSeq(similar_games, LAMBDA r : r.position = move)
        hits == CountResults(matching, {"hit", "sunk"})
        misses == CountResults(matching, {"miss"})
    IN  IF data = <<>> \/ similar_games = <<>> \/ matching = <<>>
        THEN [num |-> 0, den |-> 1, raised |-> "none"]
        ELSE IF hits + misses = 0
        THEN [num |-> 0, den |-> 1, raised |-> "ZeroDivisionError"]
        ELSE [num |-> hits * 10, den |-> hits + misses, raised |-> "none"]

\* HistoricalDataStrategy.evaluate_move: 0.0 without data, without a similar
\* game, without a row of the move in the similar games or without a hit or
\* a miss among these rows, hits / (hits + misses) * 10 otherwise
HistoricalDataStrategy_evaluate_move(move, b, data) ==
    LET similar_games == SelectSeq(data, LAMBDA r : StrContains(r.game_state, b.shots))
        matching == SelectSeq(similar_games, LAMBDA r : r.position = move)
        hits == CountResults(matching, {"hit", "sunk"})
        misses == CountResults(matching, {"miss"})
    IN  IF data = <<>> \/ similar_games = <<>> \/ matching = <<>>
        THEN [num |-> 0, den |-> 1, raised |-> "none"]
        ELSE IF hits + misses = 0
        THEN [num |-> 0, den |-> 1, raised |-> "none"]
        ELSE [num |-> hits * 10, den |-> hits + misses, raised |-> "none"]

(***************************************************************************)
(* GameManager  (src/models/game_manager.py)                               *)
(***************************************************************************)
\* self.turn = 0 of GameManager.__init__
InitialTurn == 0

\* GameManager._record_move: the row appended to game_data
record_move(game_data, t, player, position, result, shots) ==
    Append(game_data,
           [turn |-> t, player |-> player, position |-> position,
            result |-> result[1], game_state |-> shots])

\* the placement loop of initialize_game from the k-th ship of the fleet on:
\* the boards it can leave and what place_ship_randomly answered last
RECURSIVE PlaceShips(_, _)
PlaceShips(b, k) ==
    IF k > Len(Fleet)
    THEN {[board |-> b, ret |-> <<"True">>]}
    ELSE UNION {IF o.ret = <<"True">>
                THEN PlaceShips(o.board, k + 1)
                ELSE {[board |-> o.board, ret |-> o.ret]} :
                   o \in place_ship_randomly(b, NewShip(Fleet[k].name, Fleet[k].size))}

\* GameManager.initialize_game: the AI's ships, then the player's; False at
\* the first placement that fails
initialize_game(ab, pb) ==
    UNION {IF a.ret # <<"True">>
           THEN {[ai_board |-> a.board, player_board |-> pb, ret |-> a.ret]}
           ELSE {[ai_board |-> a.board, player_board |-> p.board, ret |-> p.ret] :
                    p \in PlaceShips(pb, 1)} :
              a \in PlaceShips(ab, 1)}

\* GameManager.ai_turn: the player's board and the AI after the call, and
\* the result of the shot (or the exception of evaluate_moves)
ai_turn(pb, ai, t) ==
    LET e == evaluate_moves(ai, pb)
        r == receive_shot(pb, e.ret)
    IN  IF e.raised # "none"
        THEN {[player_board |-> pb, ai |-> e.ai, position |-> None, ret |-> <<e.raised>>]}
        ELSE {[player_board |-> r.board,
               ai |-> [a EXCEPT !.game_data =
                          record_move(@, t, "ai", e.ret, r.ret, r.board.shots)],
               position |-> e.ret,
               ret |-> r.ret] : a \in process_shot_result(e.ai, e.ret, r.ret, r.board)}

\* a player_turn that fires at the player's own board
player_turn_OwnBoard(gm, position) ==
    LET r == receive_shot(gm.player_board, position)
        gm1 == [gm EXCEPT !.turn = @ + 1, !.player_board = r.board]
    IN  IF r.ret = <<"IndexError">>
        THEN [gm |-> gm1, ret |-> r.ret]
        ELSE [gm |-> [gm1 EXCEPT !.ai_player.game_data =
                         record_move(@, gm1.turn, "player", position, r.ret, r.board.shots)],
              ret |-> r.ret]

\* GameManager.player_turn on gm = [player_board, ai_board, ai_player, turn]:
\* the game after the call and the result of the shot; an exception of
\* receive_shot leaves the move unrecorded
player_turn(gm, position) ==
    LET r == receive_shot(gm.ai_board, position)
        gm1 == [gm EXCEPT !.turn = @ + 1, !.ai_board = r.board]
    IN  IF r.ret = <<"IndexError">>
        THEN [gm |-> gm1, ret |-> r.ret]
        ELSE [gm |-> [gm1 EXCEPT !.ai_player.game_data =
                         record_move(@, gm1.turn, "player", position, r.ret, r.board.shots)],
              ret |-> r.ret]

(***************************************************************************)
(* A board under arbitrary calls                                           *)
(***************************************************************************)
NoCall == [op |-> "none", ret |-> <<>>]

\* True / False as returned by a call
PyBool(v) == IF v THEN "True" ELSE "False"

\* no standalone ship
NoShip == NewShip("none", 0)

\* BattleshipGUI.__init__: the flags of the GUI; pending counts the
\* callbacks handed to root.after that have not run yet
NewGui ==
    [game_over |-> FALSE, animation_in_progress |-> FALSE, animation_step |-> 0,
     player_turn_active |-> TRUE,
     pending |-> [animate_shot_result |-> 0, ai_turn |-> 0],
     new_games |-> 0]

\* the positions of a board of size n
Positions(n) == Cells(n)

\* any pair of integers one step around the board
AnyPositions(n) == (-1 .. n) \X (-1 .. n)

\* how many shots a board of size n records in the model
ShotCap(n) == IF n * n <= MaxFull THEN n * n ELSE MaxShots

Init ==
    /\ board \in {NewBoard(n) : n \in 1 .. MaxSize}
    /\ last = NoCall
    /\ ship = NoShip
    /\ player_board = NewBoard(1)
    /\ ai_player = NewAIPlayer
    /\ hunt = NewHunt
    /\ ai_board = NewBoard(1)
    /\ turn = InitialTurn
    /\ gui = NewGui

\* board.receive_shot(p)
ReceiveShotCall(p) ==
    /\ Len(board.shots) < ShotCap(board.size) \/ InList(p, board.shots)
    /\ board' = receive_shot(board, p).board
    /\ last' = [op |-> "receive_shot", ret |-> receive_shot(board, p).ret]
    /\ UNCHANGED <<gui, hunt, ai_board, turn, ship, player_board, ai_player>>

\* board.place_ship_randomly(Ship(name, size)) for a ship of the fleet not on
\* the board yet
PlaceShipCall(k) ==
    /\ \A i \in DOMAIN board.ships : board.ships[i].name # Fleet[k].name
    /\ \E o \in place_ship_randomly(board, NewShip(Fleet[k].name, Fleet[k].size)) :
          /\ board' = o.board
          /\ last' = [op |-> "place_ship_randomly", ret |-> o.ret]
    /\ UNCHANGED <<gui, hunt, ai_board, turn, ship, player_board, ai_player>>

Next ==
    \/ \E p \in Positions(board.size) : ReceiveShotCall(p)
    \/ \E k \in DOMAIN Fleet : PlaceShipCall(k)

Spec == Init /\ [][Next]_vars

(***************************************************************************)
(* The same board, with receive_shot called on any pair of integers        *)
(***************************************************************************)
InitAnyArg ==
    /\ board \in {NewBoard(n) : n \in 1 .. MaxSizeAnyArg}
    /\ last = NoCall
    /\ ship = NoShip
    /\ player_board = NewBoard(1)
    /\ ai_player = NewAIPlayer
    /\ hunt = NewHunt
    /\ ai_board = NewBoard(1)
    /\ turn = InitialTurn
    /\ gui = NewGui

ReceiveShotAnyArgCall(p) ==
    /\ Len(board.shots) < MaxShots \/ InList(p, board.shots)
    /\ board' = receive_shot(board, p).board
    /\ last' = [op |-> "receive_shot", ret |-> receive_shot(board, p).ret]
    /\ UNCHANGED <<gui, hunt, ai_board, turn, ship, player_board, ai_player>>

NextAnyArg ==
    \/ \E p \in AnyPositions(board.size) : ReceiveShotAnyArgCall(p)
    \/ \E k \in DOMAIN Fleet : PlaceShipCall(k)

SpecAnyArg == InitAnyArg /\ [][NextAnyArg]_vars

(***************************************************************************)
(* A ship of its own under arbitrary place and hit calls                   *)
(***************************************************************************)
\* the lists of at most n elements of S
ListsUpTo(S, n) == UNION {[1 .. k -> S] : k \in 0 .. n}

InitShip ==
    /\ board = NewBoard(1)
    /\ last = NoCall
    /\ ship \in {NewShip(Fleet[k].name, Fleet[k].size) : k \in DOMAIN Fleet}
    /\ player_board = NewBoard(1)
    /\ ai_player = NewAIPlayer
    /\ hunt = NewHunt
    /\ ai_board = NewBoard(1)
    /\ turn = InitialTurn
    /\ gui = NewGui

\* ship.place(positions)
ShipPlaceCall(positions) ==
    /\ ship' = place(ship, positions).ship
    /\ last' = [op |-> "place", ret |-> <<place(ship, positions).raised>>]
    /\ UNCHANGED <<gui, hunt, ai_board, turn, board, player_board, ai_player>>

\* ship.hit(p)
ShipHitCall(p) ==
    /\ Len(ship.hits) < MaxShots \/ ~hit(ship, p).ret
    /\ ship' = hit(ship, p).ship
    /\ last' = [op |-> "hit", ret |-> <<PyBool(hit(ship, p).ret)>>]
    /\ UNCHANGED <<gui, hunt, ai_board, turn, board, player_board, ai_player>>

NextShip ==
    \/ \E l \in ListsUpTo(Cells(ShipGrid), MaxListLen) : ShipPlaceCall(l)
    \/ \E p \in Cells(ShipGrid) : ShipHitCall(p)

SpecShip == InitShip /\ [][NextShip]_vars

(***************************************************************************)
(* A ship placed at most once (as place_ship_randomly does: one place call *)
(* on a fresh Ship), then hit                                              *)
(***************************************************************************)
\* ship.place(positions) on a ship that has no positions yet
ShipPlaceOnceCall(positions) ==
    /\ ship.positions = <<>>
    /\ ShipPlaceCall(positions)

NextShipOnce ==
    \/ \E l \in ListsUpTo(Cells(ShipGrid), MaxListLen) : ShipPlaceOnceCall(l)
    \/ \E p \in Cells(ShipGrid) : ShipHitCall(p)

SpecShipOnce == InitShip /\ [][NextShipOnce]_vars

(***************************************************************************)
(* The AI's turns against the player's board                               *)
(***************************************************************************)
InitAiTurns ==
    /\ board = NewBoard(1)
    /\ last = NoCall
    /\ ship = NoShip
    /\ player_board = NewBoard(AiBoardSize)
    /\ ai_player = NewAIPlayer
    /\ hunt = NewHunt
    /\ ai_board = NewBoard(1)
    /\ turn = InitialTurn
    /\ gui = NewGui

\* game.initialize_game(), whatever it returns.  ai_turn reads and writes
\* the player's board and the AI only: the AI's board is not kept here.
InitializeGameCall ==
    /\ last.op = "none"
    /\ \E o \in initialize_game(NewBoard(AiBoardSize), player_board) :
          /\ player_board' = o.player_board
          /\ last' = [op |-> "initialize_game", ret |-> o.ret]
    /\ UNCHANGED <<gui, hunt, ai_board, turn, board, ship, ai_player>>

\* game.ai_turn(), once initialize_game has returned
AiTurnCall ==
    /\ last.op \in {"initialize_game", "ai_turn"}
    /\ \E o \in ai_turn(player_board, ai_player, InitialTurn) :
          /\ player_board' = o.player_board
          /\ ai_player' = o.ai
          /\ last' = [op |-> "ai_turn", ret |-> o.ret]
    /\ UNCHANGED <<gui, hunt, ai_board, turn, board, ship>>

NextAiTurns == InitializeGameCall \/ AiTurnCall

SpecAiTurns == InitAiTurns /\ [][NextAiTurns]_vars

(***************************************************************************)
(* One turn of the AI on a board after any shots, with or without a row of *)
(* an earlier game in game_data                                            *)
(***************************************************************************)
\* the board after receive_shot on each position of the list
RECURSIVE ShootAll(_, _)
ShootAll(b, ps) ==
    IF ps = <<>> THEN b ELSE ShootAll(receive_shot(b, Head(ps)).board, Tail(ps))

\* a board of size n without ships, shot at on the cells of S
ShotBoard(n, S) == ShootAll(NewBoard(n), SelectSeq(RowMajor(n), LAMBDA p : p \in S))

\* the rows an earlier game can have left in the data file for a shot of the
\* AI: its first shot, or its second one
PastRows(n) ==
    UNION {{record_move(<<>>, InitialTurn, "ai", p, <<res>>, st)[1] :
               res \in {"hit", "miss"},
               st \in {<<p>>} \cup {<<q, p>> : q \in Cells(n) \ {p}}} : p \in Cells(n)}

\* AIPlayer.__init__ with the data file of earlier games
LoadedAIPlayer(game_data) == [NewAIPlayer EXCEPT !.game_data = game_data]

InitEval ==
    /\ board = NewBoard(1)
    /\ last = NoCall
    /\ ship = NoShip
    /\ \E n \in 1 .. MaxEvalSize : \E S \in SUBSET Cells(n) : player_board = ShotBoard(n, S)
    /\ ai_player \in {LoadedAIPlayer(<<>>)}
                     \cup (IF player_board.size <= MaxHistSize
                           THEN {LoadedAIPlayer(<<r>>) : r \in PastRows(player_board.size)}
                           ELSE {})
    /\ hunt = NewHunt
    /\ ai_board = NewBoard(1)
    /\ turn = InitialTurn
    /\ gui = NewGui

\* game.ai_turn(), once
EvalTurnCall ==
    /\ last.op = "none"
    /\ \E o \in ai_turn(player_board, ai_player, InitialTurn) :
          /\ player_board' = o.player_board
          /\ ai_player' = o.ai
          /\ last' = [op |-> "ai_turn", ret |-> o.ret]
    /\ UNCHANGED <<gui, hunt, ai_board, turn, board, ship>>

NextEval == EvalTurnCall

SpecEval == InitEval /\ [][NextEval]_vars

(***************************************************************************)
(* The strategies evaluated on a board, after shots                        *)
(***************************************************************************)
\* Board(): size=10
DefaultSize == 10

\* the float returned, or the exception, as the value of a call
FloatRet(v) ==
    IF v.raised # "none" THEN <<v.raised>> ELSE <<ToString(v.num), ToString(v.den)>>

InitSignals ==
    /\ board \in {NewBoard(n) : n \in (1 .. MaxSize) \cup {DefaultSize}}
    /\ last = NoCall
    /\ ship = NoShip
    /\ player_board = NewBoard(1)
    /\ ai_player = NewAIPlayer
    /\ hunt = NewHunt
    /\ ai_board = NewBoard(1)
    /\ turn = InitialTurn
    /\ gui = NewGui

\* board.receive_shot(p), before a strategy is evaluated
SignalShotCall(p) ==
    /\ last.op \in {"none", "receive_shot"}
    /\ Len(board.shots) < MaxSignalShots
    /\ board' = receive_shot(board, p).board
    /\ last' = [op |-> "receive_shot", ret |-> receive_shot(board, p).ret]
    /\ UNCHANGED <<gui, hunt, ai_board, turn, ship, player_board, ai_player>>

\* CenterWeightStrategy().evaluate_move(move, board)
CenterWeightCall(move) ==
    /\ last.op \in {"none", "receive_shot"}
    /\ last' = [op |-> "CenterWeightStrategy.evaluate_move",
                ret |-> FloatRet(CenterWeightStrategy_evaluate_move(move, board))]
    /\ UNCHANGED <<gui, hunt, ai_board, turn, board, ship, player_board, ai_player>>

\* CheckerboardStrategy().evaluate_move(move, board)
CheckerboardCall(move) ==
    /\ last.op \in {"none", "receive_shot"}
    /\ last' = [op |-> "CheckerboardStrategy.evaluate_move",
                ret |-> FloatRet(CheckerboardStrategy_evaluate_move(move, board))]
    /\ UNCHANGED <<gui, hunt, ai_board, turn, board, ship, player_board, ai_player>>

NextSignals ==
    \/ \E p \in Positions(board.size) : SignalShotCall(p)
    \/ \E move \in Positions(board.size) : CenterWeightCall(move)
    \/ \E move \in Positions(board.size) : CheckerboardCall(move)

SpecSignals == InitSignals /\ [][NextSignals]_vars

(***************************************************************************)
(* A game: initialize_game, then the turns of the player and of the AI     *)
(***************************************************************************)
\* the GameManager
GM == [player_board |-> player_board, ai_board |-> ai_board,
       ai_player |-> ai_player, turn |-> turn]

InitGame ==
    /\ board = NewBoard(1)
    /\ last = NoCall
    /\ ship = NoShip
    /\ player_board = NewBoard(AiBoardSize)
    /\ ai_player = NewAIPlayer
    /\ hunt = NewHunt
    /\ ai_board = NewBoard(AiBoardSize)
    /\ turn = InitialTurn
    /\ gui = NewGui

\* game.initialize_game(), whatever it returns
GameInitializeCall ==
    /\ last.op = "none"
    /\ \E o \in initialize_game(ai_board, player_board) :
          /\ ai_board' = o.ai_board
          /\ player_board' = o.player_board
          /\ last' = [op |-> "initialize_game", ret |-> o.ret]
    /\ UNCHANGED <<gui, hunt, turn, board, ship, ai_player>>

\* the cells the player clicks on
PlayerCells(n) == Elems(SubSeq(RowMajor(n), 1, MinOf({n * n, MaxPlayerCells})))

\* game.player_turn(position)
PlayerTurnCall(position) ==
    /\ last.op # "none"
    /\ turn < MaxPlayerTurns
    /\ LET o == player_turn(GM, position)
       IN  /\ player_board' = o.gm.player_board
           /\ ai_board' = o.gm.ai_board
           /\ ai_player' = o.gm.ai_player
           /\ turn' = o.gm.turn
           /\ last' = [op |-> "player_turn", ret |-> o.ret]
    /\ UNCHANGED <<gui, hunt, board, ship>>

\* game.ai_turn()
GameAiTurnCall ==
    /\ last.op # "none"
    /\ Len(player_board.shots) < MaxAiTurns
    /\ \E o \in ai_turn(player_board, ai_player, turn) :
          /\ player_board' = o.player_board
          /\ ai_player' = o.ai
          /\ last' = [op |-> "ai_turn", ret |-> o.ret]
    /\ UNCHANGED <<gui, hunt, ai_board, turn, board, ship>>

NextGame ==
    \/ GameInitializeCall
    \/ \E position \in PlayerCells(ai_board.size) : PlayerTurnCall(position)
    \/ GameAiTurnCall

SpecGame == InitGame /\ [][NextGame]_vars

(***************************************************************************)
(* HistoricalDataStrategy on a board after any shots, with the rows of     *)
(* earlier games                                                           *)
(***************************************************************************)
\* the rows an earlier game can have recorded for a shot, first or second
\* of its board, whatever its result
HistRows(n) ==
    UNION {{record_move(<<>>, InitialTurn, "ai", p, <<res>>, st)[1] :
               res \in {"hit", "miss", "sunk", "already_shot"},
               st \in {<<p>>} \cup {<<q, p>> : q \in Cells(n) \ {p}}} : p \in Cells(n)}

InitHist ==
    /\ board = NewBoard(1)
    /\ last = NoCall
    /\ ship = NoShip
    /\ \E n \in 1 .. MaxHistSize : \E S \in SUBSET Cells(n) : player_board = ShotBoard(n, S)
    /\ ai_player \in {LoadedAIPlayer(d) : d \in ListsUpTo(HistRows(player_board.size), MaxHistRows)}
    /\ hunt = NewHunt
    /\ ai_board = NewBoard(1)
    /\ turn = InitialTurn
    /\ gui = NewGui

\* HistoricalDataStrategy().evaluate_move(move, board, data)
HistoricalCall(move) ==
    /\ last.op = "none"
    /\ last' = [op |-> "HistoricalDataStrategy.evaluate_move",
                ret |-> FloatRet(HistoricalDataStrategy_evaluate_move(
                                     move, player_board, ai_player.game_data))]
    /\ UNCHANGED <<gui, hunt, ai_board, turn, board, ship, player_board, ai_player>>

NextHist == \E move \in Positions(player_board.size) : HistoricalCall(move)

SpecHist == InitHist /\ [][NextHist]_vars

(***************************************************************************)
(* A HuntTargetStrategy told the result of every shot at a board: a shot   *)
(* is fired at the target get_next_target returns, or at a cell the caller *)
(* chooses                                                                 *)
(***************************************************************************)
InitHunt ==
    /\ board \in UNION {{o.board : o \in {q \in PlaceShips(NewBoard(n), 1) : q.ret = <<"True">>}} :
                           n \in Fleet[1].size .. HuntSize}
    /\ last = NoCall
    /\ ship = NoShip
    /\ player_board = NewBoard(1)
    /\ ai_player = NewAIPlayer
    /\ hunt = NewHunt
    /\ ai_board = NewBoard(1)
    /\ turn = InitialTurn
    /\ gui = NewGui

\* the cells the caller chooses its shots among
HuntCells(n) == Elems(SubSeq(RowMajor(n), 1, MinOf({n * n, MaxHuntCells})))

\* board.receive_shot(p) and process_result(p, result, board), p chosen by
\* the caller
HuntShotCall(p) ==
    /\ Len(board.shots) < MaxHuntShots
    /\ NotShot(board, p)
    /\ LET r == receive_shot(board, p)
       IN  /\ board' = r.board
           /\ hunt' = process_result(hunt, p, r.ret, r.board)
           /\ last' = [op |-> "process_result", ret |-> r.ret]
    /\ UNCHANGED <<gui, ship, player_board, ai_player, ai_board, turn>>

\* get_next_target(board) and, when it returns a target, the shot at it and
\* process_result
HuntTargetCall ==
    /\ hunt.hit_stack # <<>>
    /\ LET g == get_next_target(hunt, board)
           r == receive_shot(board, g.ret)
       IN  IF g.ret = None
           THEN /\ hunt' = g.hunt
                /\ board' = board
                /\ last' = [op |-> "get_next_target", ret |-> <<"None">>]
           ELSE /\ Len(board.shots) < MaxHuntShots
                /\ board' = r.board
                /\ hunt' = process_result(g.hunt, g.ret, r.ret, r.board)
                /\ last' = [op |-> "get_next_target", ret |-> r.ret]
    /\ UNCHANGED <<gui, ship, player_board, ai_player, ai_board, turn>>

NextHunt ==
    \/ \E p \in HuntCells(board.size) : HuntShotCall(p)
    \/ HuntTargetCall

SpecHunt == InitHunt /\ [][NextHunt]_vars

(***************************************************************************)
(* Properties of Board and Ship                                            *)
(***************************************************************************)
\* the ships of b with p among their positions
Occupants(b, p) == {i \in DOMAIN b.ships : InList(p, b.ships[i].positions)}

\* s is a prefix of t
IsPrefix(s, t) == Len(s) <= Len(t) /\ \A i \in DOMAIN s : s[i] = t[i]

\* the elements of the list are pairwise different
NoRepeat(s) == \A i, j \in DOMAIN s : i # j => s[i] # s[j]

\* C1: whatever positions receive_shot was called with, the number of valid
\* moves plus the number of shots is size * size
C1_ValidPlusShots ==
    Len(get_valid_moves(board)) + Len(board.shots) = board.size * board.size

\* C2: receive_shot on a position already in shots returns already_shot and
\* leaves the board (shots, grid, every ship's hits) as it was
C2_AlreadyShotNoOp ==
    \A p \in Elems(board.shots) :
       /\ receive_shot(board, p).ret = <<"already_shot">>
       /\ receive_shot(board, p).board = board

C2_Witness ==
    /\ last.op = "receive_shot"
    /\ last.ret = <<"already_shot">>
    /\ \E i \in DOMAIN board.ships : board.ships[i].hits # <<>>

\* C3: receive_shot on a position not in shots appends it to shots, returns
\* miss iff no ship is on the cell, sunk with the name of the ship on the cell
\* iff every other cell of that ship was shot before, and hit iff that ship
\* keeps a cell not shot
C3_ShotResult ==
    \A p \in Positions(board.size) \ Elems(board.shots) :
       LET r == receive_shot(board, p)
       IN  /\ r.board.shots = Append(board.shots, p)
           /\ (r.ret = <<"miss">>) <=> (Occupants(board, p) = {})
           /\ \A i \in Occupants(board, p) :
                 LET others == Elems(board.ships[i].positions) \ {p}
                 IN  /\ (r.ret = <<"sunk", board.ships[i].name>>)
                        <=> (\A c \in others : InList(c, board.shots))
                     /\ (r.ret = <<"hit">>)
                        <=> (\E c \in others : ~InList(c, r.board.shots))

C3_Witness ==
    /\ last.op = "receive_shot"
    /\ \E i, j \in DOMAIN board.ships :
          /\ i < j
          /\ last.ret = <<"sunk", board.ships[j].name>>
          /\ board.ships[i].hits # <<>>
          /\ ~is_sunk(board.ships[i])

\* every position of the ship is among its hits
AllCellsHit(s) == \A c \in Elems(s.positions) : InList(c, s.hits)

\* the ship is on size different cells and was hit on these cells only
PlacedOnRun(s) ==
    /\ is_placed(s)
    /\ NoRepeat(s.positions)
    /\ Elems(s.hits) \subseteq Elems(s.positions)

\* C4 as stated: is_sunk() iff every placed cell was hit, unplaced ships
\* included
C4_SunkIffAllCellsHit_Any == is_sunk(ship) <=> AllCellsHit(ship)

\* C4 amended: a ship on size different cells, hit on them only, is sunk iff
\* every one of its cells was hit; a ship never placed is not sunk
C4_SunkIffAllCellsHit ==
    /\ PlacedOnRun(ship) => (is_sunk(ship) <=> AllCellsHit(ship))
    /\ ship.positions = <<>> => ~is_sunk(ship)

C4_Witness ==
    /\ last.op = "hit"
    /\ last.ret = <<"True">>
    /\ PlacedOnRun(ship)
    /\ is_sunk(ship)

\* C6: all_ships_sunk() iff every ship of the board has as many recorded hits
\* as its length, which is when every cell of every ship was shot
C6_DefeatedIffAllHit ==
    /\ all_ships_sunk(board)
       <=> \A i \in DOMAIN board.ships : Len(board.ships[i].hits) = board.ships[i].size
    /\ all_ships_sunk(board)
       <=> \A i \in DOMAIN board.ships :
              \A c \in Elems(board.ships[i].positions) : InList(c, board.shots)

C6_Witness ==
    /\ board.ships # <<>>
    /\ last.op = "receive_shot"
    /\ Len(last.ret) = 2
    /\ all_ships_sunk(board)

\* C7: every position in shots has grid state hit (2) or miss (-1), hit
\* exactly when a ship is on the cell
C7_ShotCellState ==
    \A p \in Elems(board.shots) :
       /\ p \in DOMAIN board.grid
       /\ board.grid[p] \in {2, -1}
       /\ (board.grid[p] = 2) <=> (Occupants(board, p) # {})

C7_Witness ==
    /\ \E p \in Elems(board.shots) : board.grid[p] = 2
    /\ \E p \in Elems(board.shots) : board.grid[p] = -1
    /\ last.ret = <<"already_shot">>

\* C8: shots never holds a position twice
C8_NoDuplicateShot == NoRepeat(board.shots)

C8_Witness ==
    /\ Len(board.shots) >= 2
    /\ last.op = "receive_shot"
    /\ last.ret = <<"already_shot">>
    /\ board.ships = <<>>

\* C9: shots grows by appending only, the valid moves only shrink, and no
\* valid move is left exactly when size * size shots were taken
C9_ShotsGrowMovesShrink ==
    /\ []((get_valid_moves(board) = <<>>) <=> (Len(board.shots) = board.size * board.size))
    /\ [][/\ IsPrefix(board.shots, board'.shots)
          /\ Elems(get_valid_moves(board')) \subseteq Elems(get_valid_moves(board))]_vars

C9_Witness ==
    /\ board.size >= 2
    /\ get_valid_moves(board) = <<>>
    /\ board.ships # <<>>

\* C10: place with a list of another length than the ship's raises, and
\* leaves the ship as it was (unplaced, when it was); place with a list of the
\* ship's length leaves the ship on that many cells
C10_Place ==
    \A l \in ListsUpTo(Cells(ShipGrid), MaxListLen) :
       LET r == place(ship, l)
       IN  IF Len(l) # ship.size
           THEN /\ r.raised = "ValueError"
                /\ r.ship = ship
                /\ (ship.positions = <<>> => ~is_placed(r.ship))
           ELSE /\ r.raised = "none"
                /\ r.ship.positions = l
                /\ Len(r.ship.positions) = ship.size
                /\ is_placed(r.ship)

C10_Witness ==
    /\ last.op = "place"
    /\ last.ret = <<"ValueError">>
    /\ is_placed(ship)

\* C11: hit(position) returns True iff position is one of the ship's
\* positions, also when the position was hit before
C11_HitIffCell ==
    \A p \in Cells(ShipGrid) : hit(ship, p).ret <=> InList(p, ship.positions)

\* C12: on a ship placed once, hits holds positions of the ship only and none
\* twice, so at most size of them, and hit on a position already in hits
\* leaves the ship as it was
C12_HitsWithinCells ==
    /\ Elems(ship.hits) \subseteq Elems(ship.positions)
    /\ NoRepeat(ship.hits)
    /\ Len(ship.hits) <= ship.size
    /\ \A p \in Elems(ship.hits) : hit(ship, p).ship = ship

C12_Witness ==
    /\ last.op = "hit"
    /\ last.ret = <<"False">>
    /\ NoRepeat(ship.positions)
    /\ Len(ship.hits) = ship.size

\* the positions are a run of cells side by side in a row (horizontal) or in
\* a column (vertical)
StraightRun(ps) ==
    \/ \A k \in DOMAIN ps : ps[k] = <<ps[1][1], ps[1][2] + k - 1>>
    \/ \A k \in DOMAIN ps : ps[k] = <<ps[1][1] + k - 1, ps[1][2]>>

\* C13: every ship placed by place_ship_randomly is on size cells of the
\* board that form a straight run, and no cell holds two ships
C13_ShipsOnDisjointRuns ==
    /\ \A i \in DOMAIN board.ships :
          LET s == board.ships[i]
          IN  /\ Len(s.positions) = s.size
              /\ Cardinality(Elems(s.positions)) = s.size
              /\ Elems(s.positions) \subseteq Cells(board.size)
              /\ StraightRun(s.positions)
    /\ \A i, j \in DOMAIN board.ships :
          i # j => Elems(board.ships[i].positions) \cap Elems(board.ships[j].positions) = {}

C13_Witness ==
    /\ last.op = "place_ship_randomly"
    /\ last.ret = <<"True">>
    /\ Len(board.ships) = 2
    /\ board.ships[1].positions[1][1] = board.ships[1].positions[2][1]
    /\ board.ships[2].positions[1][2] = board.ships[2].positions[2][2]

\* C14: place_ship_randomly either places the ship and returns True, or
\* returns False with the board and the ship as they were
C14_PlacedOrFailed ==
    \A k \in DOMAIN Fleet :
       LET s == NewShip(Fleet[k].name, Fleet[k].size)
       IN  \A o \in place_ship_randomly(board, s) :
              \/ /\ o.ret = <<"True">>
                 /\ is_placed(o.ship)
                 /\ o.board.ships = Append(board.ships, o.ship)
              \/ /\ o.ret = <<"False">>
                 /\ o.board = board
                 /\ o.ship = s

\* C15: place_ship_randomly rejects a run only when a ship is on one of its
\* cells
C15_RejectedOnlyOnShip ==
    \A k \in DOMAIN Fleet :
       \A c \in Candidates(board.size, Fleet[k].size) :
          ~RunValid(board, c) => \E i \in DOMAIN c : Occupants(board, c[i]) # {}

(***************************************************************************)
(* Properties of the AI's turns                                            *)
(***************************************************************************)
\* C5: while the player's board has a valid move, evaluate_moves returns a
\* position of the grid that is not in shots, and the shot ai_turn fires is
\* never answered already_shot
C5_AiMoveIsLegal ==
    /\ get_valid_moves(player_board) # <<>>
       => LET e == evaluate_moves(ai_player, player_board)
          IN  /\ e.raised = "none"
              /\ e.ret \in Cells(player_board.size)
              /\ ~InList(e.ret, player_board.shots)
              /\ receive_shot(player_board, e.ret).ret # <<"already_shot">>
    /\ last.op = "ai_turn" => last.ret # <<"already_shot">>

\* after hits and a miss, the move hit_stack gives next was shot already
C5_Witness ==
    /\ last.op = "ai_turn"
    /\ get_valid_moves(player_board) # <<>>
    /\ ai_player.hit_stack # <<>>
    /\ InList(ai_player.hit_stack[Len(ai_player.hit_stack)], player_board.shots)
    /\ \E p \in Elems(player_board.shots) : player_board.grid[p] = -1
    /\ \E i \in DOMAIN player_board.ships : player_board.ships[i].hits # <<>>

(***************************************************************************)
(* Properties of the move the AI chooses                                   *)
(***************************************************************************)
\* evaluate_moves has no move of hit_stack to return and a move to choose
Fallback ==
    /\ ai_player.hit_stack = <<>>
    /\ get_valid_moves(player_board) # <<>>

Parity(m) == IF (m[1] + m[2]) % 2 = 0 THEN 1 ELSE 0

\* (size - 1 - d) / (size - 1) * 1.0 + parity * 1.5 + 10 * hit rate * 2.0,
\* as the fraction StatedNum / StatedDen
StatedDen(m) == 2 * (player_board.size - 1) * ScoreDen(ai_player, player_board, m)
StatedNum(m) ==
    2 * (player_board.size - 1 - distance_to_center(player_board, m))
      * ScoreDen(ai_player, player_board, m)
    + 3 * Parity(m) * (player_board.size - 1) * ScoreDen(ai_player, player_board, m)
    + 40 * HistHits(ai_player, player_board, m) * (player_board.size - 1)

\* - 0.5 * d + parity * 1 + 10 * hit rate, as the fraction CodedNum / CodedDen
CodedDen(m) == 2 * ScoreDen(ai_player, player_board, m)
CodedNum(m) ==
    (2 * Parity(m) - distance_to_center(player_board, m))
      * ScoreDen(ai_player, player_board, m)
    + 20 * HistHits(ai_player, player_board, m)

\* the cell ai_turn has just fired at
Fired == player_board.shots[Len(player_board.shots)]

\* C16 as stated: the move chosen is a legal cell that no legal cell beats
\* on center * 1.0 + parity * 1.5 + historical * 2.0
C16_StatedWeightsMaximal ==
    (Fallback /\ player_board.size >= 2)
    => LET c == evaluate_moves(ai_player, player_board).ret
           legal == get_valid_moves(player_board)
           num == [i \in DOMAIN legal |-> StatedNum(legal[i])] \o <<>>
           den == [i \in DOMAIN legal |-> StatedDen(legal[i])] \o <<>>
       IN  /\ c \in Cells(player_board.size)
           /\ ~InList(c, player_board.shots)
           /\ \E i \in DOMAIN legal :
                 /\ legal[i] = c
                 /\ \A j \in DOMAIN legal : ~(num[j] * den[i] > num[i] * den[j])

\* C16 amended: the move chosen is a legal cell that no legal cell beats on
\* - 0.5 * d + parity + 10 * hit rate
C16_CodedWeightsMaximal ==
    Fallback
    => LET c == evaluate_moves(ai_player, player_board).ret
           legal == get_valid_moves(player_board)
           num == [i \in DOMAIN legal |-> CodedNum(legal[i])] \o <<>>
           den == [i \in DOMAIN legal |-> CodedDen(legal[i])] \o <<>>
       IN  /\ c \in Cells(player_board.size)
           /\ ~InList(c, player_board.shots)
           /\ \E i \in DOMAIN legal :
                 /\ legal[i] = c
                 /\ \A j \in DOMAIN legal : ~(num[j] * den[i] > num[i] * den[j])

\* with no row of an earlier game, the AI fired at a cell off the
\* checkerboard with a cell of the checkerboard still open
C16_Witness ==
    /\ last.op = "ai_turn"
    /\ last.ret = <<"miss">>
    /\ Len(ai_player.game_data) = 1
    /\ Parity(Fired) = 0
    /\ \E m \in Elems(get_valid_moves(player_board)) : Parity(m) = 1

\* the place of a cell in the row-major order
RowIndex(b, m) == m[1] * b.size + m[2]

\* the board with the shots of b and a ship along the first row
SameShots(b) ==
    ShootAll(add_ship(NewBoard(b.size),
                      place(NewShip("Croiseur", b.size),
                            [i \in 1 .. b.size |-> <<0, i - 1>>]).ship),
             b.shots)

\* C17: with an empty hit_stack, evaluate_moves returns the first cell in
\* row-major order among the legal cells of maximal score, the same on a
\* board with the same shots and a ship where the other has none
C17_FallbackDeterministic ==
    Fallback
    => LET c == evaluate_moves(ai_player, player_board).ret
           legal == get_valid_moves(player_board)
           num == [i \in DOMAIN legal |-> CodedNum(legal[i])] \o <<>>
           den == [i \in DOMAIN legal |-> CodedDen(legal[i])] \o <<>>
       IN  /\ \E i \in DOMAIN legal :
                 /\ legal[i] = c
                 /\ \A j \in DOMAIN legal :
                       \/ num[i] * den[j] > num[j] * den[i]
                       \/ /\ num[i] * den[j] = num[j] * den[i]
                          /\ RowIndex(player_board, c) <= RowIndex(player_board, legal[j])
           /\ evaluate_moves(ai_player, SameShots(player_board)).ret = c

\* the row of an earlier game made the AI fire away from the center
C17_Witness ==
    /\ last.op = "ai_turn"
    /\ Len(ai_player.game_data) = 2
    /\ ai_player.game_data[1].result = "hit"
    /\ ai_player.game_data[2].position = ai_player.game_data[1].position
    /\ distance_to_center(player_board, Fired) > 0
    /\ Fallback

(***************************************************************************)
(* Properties of the strategies' signals                                   *)
(***************************************************************************)
\* C18: on the 10 x 10 board the checkerboard signal is 1.0 on exactly 50
\* cells and 0.0 on exactly 50, and on any board the signal of a cell is the
\* one on a board without shots
C18_CheckerboardHalves ==
    /\ board.size = DefaultSize
       => /\ Cardinality({c \in Cells(board.size) :
                CheckerboardStrategy_evaluate_move(c, board) = [num |-> 1, den |-> 1, raised |-> "none"]}) = 50
          /\ Cardinality({c \in Cells(board.size) :
                CheckerboardStrategy_evaluate_move(c, board) = [num |-> 0, den |-> 1, raised |-> "none"]}) = 50
    /\ \A c \in Cells(board.size) :
          CheckerboardStrategy_evaluate_move(c, board)
             = CheckerboardStrategy_evaluate_move(c, NewBoard(board.size))

C18_Witness ==
    /\ last.op = "CheckerboardStrategy.evaluate_move"
    /\ last.ret = <<"0", "1">>
    /\ board.size = DefaultSize
    /\ board.shots # <<>>

\* C19: the center signal of every cell of the board is in [0, 1]
C19_CenterInUnitRange ==
    \A c \in Cells(board.size) :
       LET v == CenterWeightStrategy_evaluate_move(c, board)
       IN  /\ v.raised = "none"
           /\ 0 <= v.num
           /\ v.num <= v.den

\* the Manhattan distance of a cell to the center (size // 2, size // 2)
ManhattanToCenter(n, c) == Abs(c[1] - n \div 2) + Abs(c[2] - n \div 2)

\* the cells around the middle of a grid of size n: one for an odd n, four
\* for an even n
CenterCells(n) == ((n - 1) \div 2 .. n \div 2) \X ((n - 1) \div 2 .. n \div 2)

\* C20: on a board of size 2 or more the center signal is at most 1.0, is
\* 1.0 at (size // 2, size // 2) and at no other cell, and a cell at least
\* as far from the center as another has at most its signal
C20_CenterMaxAndMonotone ==
    board.size >= 2
    => /\ \A a \in Cells(board.size) :
             LET va == CenterWeightStrategy_evaluate_move(a, board)
             IN  /\ va.raised = "none"
                 /\ va.num <= va.den
                 /\ (va.num = va.den) <=> (a = <<board.size \div 2, board.size \div 2>>)
                 /\ (va.num = va.den) => a \in CenterCells(board.size)
       /\ LET cells == RowMajor(board.size)
              val == [i \in DOMAIN cells |->
                         CenterWeightStrategy_evaluate_move(cells[i], board).num] \o <<>>
              dist == [i \in DOMAIN cells |-> ManhattanToCenter(board.size, cells[i])] \o <<>>
          IN  \A i, j \in DOMAIN cells : dist[i] <= dist[j] => val[i] >= val[j]

C20_Witness ==
    /\ last.op = "CenterWeightStrategy.evaluate_move"
    /\ last.ret = <<"9", "9">>
    /\ board.size = DefaultSize
    /\ board.shots # <<>>

(***************************************************************************)
(* Properties of HuntTargetStrategy                                        *)
(***************************************************************************)
\* the shot at p and process_result: the strategy and the board after them
HuntStep(h, b, p) ==
    LET r == receive_shot(b, p)
    IN  [hunt |-> process_result(h, p, r.ret, r.board), board |-> r.board, ret |-> r.ret]

\* the columns (rows) of the hits of h
HitCols(h) == {h.hits[i][2] : i \in DOMAIN h.hits}
HitRows(h) == {h.hits[i][1] : i \in DOMAIN h.hits}

\* the cells one step before the first and after the last of the hits of h
\* along its direction, in the row (column) of position p, that are cells of
\* b not shot
Extremities(h, b, p) ==
    {c \in Cells(b.size) :
        /\ NotShot(b, c)
        /\ \/ /\ h.direction = "horizontal"
              /\ c[1] = p[1]
              /\ c[2] \in {MinOf(HitCols(h)) - 1, MaxOf(HitCols(h)) + 1}
           \/ /\ h.direction = "vertical"
              /\ c[2] = p[2]
              /\ c[1] \in {MinOf(HitRows(h)) - 1, MaxOf(HitRows(h)) + 1}}

\* C21: after a hit that leaves the direction known, the stack holds the
\* open cells one step beyond the two ends of the hits along the direction,
\* each once, and nothing of what it held before
C21_FrontierIsExtremities ==
    \A p \in Cells(board.size) :
        NotShot(board, p)
        => LET s == HuntStep(hunt, board, p)
           IN  (s.ret = <<"hit">> /\ s.hunt.direction # "None")
               => /\ Elems(s.hunt.hit_stack) = Extremities(s.hunt, s.board, p)
                  /\ NoRepeat(s.hunt.hit_stack)

C21_Witness ==
    /\ last.ret = <<"hit">>
    /\ hunt.direction = "horizontal"
    /\ Len(hunt.hits) = 2
    /\ Elems(hunt.hit_stack) = {<<hunt.hits[1][1], 0>>, <<hunt.hits[1][1], 3>>}

\* C22: get_next_target returns None or a cell of the board that is not
\* shot, and never a cell that was shot and missed
C22_TargetIsOpenCell ==
    LET g == get_next_target(hunt, board)
    IN  g.ret # None
        => /\ g.ret \in Cells(board.size)
           /\ NotShot(board, g.ret)
           /\ board.grid[g.ret] # -1

C22_Witness ==
    /\ last = [op |-> "get_next_target", ret |-> <<"None">>]
    /\ Len(hunt.hits) = 1
    /\ \E i \in DOMAIN board.shots :
          /\ board.grid[board.shots[i]] = -1
          /\ InList(board.shots[i], adjacent_positions(hunt.hits[1]))

\* the ships of b that are sunk
SunkShips(b) == {i \in DOMAIN b.ships : is_sunk(b.ships[i])}

\* C23: when the shot that sinks a ship follows hits that are the other
\* cells of that ship, the strategy holds no hit, no direction and no
\* target afterwards; and no cell of a sunk ship is a target again
C23_SunkResetsToIdle ==
    /\ \A p \in Cells(board.size) :
          NotShot(board, p)
          => LET s == HuntStep(hunt, board, p)
             IN  (/\ s.ret[1] = "sunk"
                  /\ \E i \in DOMAIN board.ships :
                        Elems(board.ships[i].positions) = Elems(hunt.hits) \cup {p})
                 => /\ s.hunt.hits = <<>>
                    /\ s.hunt.direction = "None"
                    /\ s.hunt.hit_stack = <<>>
                    /\ \A c \in Elems(hunt.hits) \cup {p} : ~NotShot(s.board, c)
    /\ \A i \in SunkShips(board) :
          ~InList(get_next_target(hunt, board).ret, board.ships[i].positions)

C23_Witness ==
    /\ last.ret = <<"sunk", "Sous-marin">>
    /\ Len(board.shots) = 3
    /\ hunt = NewHunt

(***************************************************************************)
(* Properties of the historical score                                      *)
(***************************************************************************)
\* C24: the historical score of a move is 0 without data, without a row of
\* a similar game, or without a row of the move among them; it is never an
\* exception; it is between 0 and 10; and it is the hit_rate * 10 that
\* AIPlayer.evaluate_moves adds
C24_HistoricalSignal ==
    \A move \in Cells(player_board.size) :
        LET data == ai_player.game_data
            v == HistoricalDataStrategy_evaluate_move(move, player_board, data)
            similar == {i \in DOMAIN data : StrContains(data[i].game_state, player_board.shots)}
        IN  /\ v.raised = "none"
            /\ v.den > 0
            /\ 0 <= v.num
            /\ v.num <= 10 * v.den
            /\ (data = <<>> \/ similar = {} \/ \A i \in similar : data[i].position # move)
               => v.num = 0
            /\ v.num * ScoreDen(ai_player, player_board, move)
                  = 10 * HistHits(ai_player, player_board, move) * v.den

C24_Witness ==
    /\ last = [op |-> "HistoricalDataStrategy.evaluate_move", ret |-> <<"10", "2">>]
    /\ player_board.shots # <<>>

OpenNeighbours(b, p) ==
    {c \in Cells(b.size) : NotShot(b, c) /\ Abs(c[1] - p[1]) + Abs(c[2] - p[2]) = 1}

\* C26: a hit when the strategy holds no hit leaves that position as its
\* only hit, the open orthogonal neighbours of the position as its stack,
\* each once, and no direction
C26_HitWhileIdle ==
    \A p \in Cells(board.size) :
        NotShot(board, p)
        => LET s == HuntStep(hunt, board, p)
           IN  (hunt.hits = <<>> /\ s.ret = <<"hit">>)
               => /\ s.hunt.hits = <<p>>
                  /\ Elems(s.hunt.hit_stack) = OpenNeighbours(s.board, p)
                  /\ NoRepeat(s.hunt.hit_stack)
                  /\ Len(s.hunt.hit_stack) <= 4
                  /\ s.hunt.direction = "None"

C26_Witness ==
    /\ last = [op |-> "process_result", ret |-> <<"hit">>]
    /\ Len(board.shots) = 2
    /\ Len(hunt.hits) = 1
    /\ Abs(board.shots[1][1] - board.shots[2][1]) + Abs(board.shots[1][2] - board.shots[2][2]) = 1
    /\ Len(hunt.hit_stack) = 3
    /\ ~InList(board.shots[1], hunt.hit_stack)
    /\ hunt.direction = "None"

\* two of the hits of h share a row (a column)
RowPair(h) == \E i, j \in DOMAIN h.hits : i # j /\ h.hits[i][1] = h.hits[j][1]
ColPair(h) == \E i, j \in DOMAIN h.hits : i # j /\ h.hits[i][2] = h.hits[j][2]

\* C27: a hit when the strategy holds hits and no direction sets the
\* direction to horizontal when two of the hits share a row, to vertical
\* when two share a column, and only when no two hits are aligned leaves it
\* unset and pushes the open neighbours of the new hit
C27_DirectionFromAlignedPair ==
    \A p \in Cells(board.size) :
        NotShot(board, p)
        => LET s == HuntStep(hunt, board, p)
           IN  (hunt.hits # <<>> /\ hunt.direction = "None" /\ s.ret = <<"hit">>)
               => /\ (RowPair(s.hunt) /\ ~ColPair(s.hunt)) => s.hunt.direction = "horizontal"
                  /\ (ColPair(s.hunt) /\ ~RowPair(s.hunt)) => s.hunt.direction = "vertical"
                  /\ (RowPair(s.hunt) \/ ColPair(s.hunt)) => s.hunt.direction # "None"
                  /\ (~RowPair(s.hunt) /\ ~ColPair(s.hunt))
                     => /\ s.hunt.direction = "None"
                        /\ s.hunt.hit_stack
                              = hunt.hit_stack \o adjacent_targets(p, s.board)

\* C28: a miss at a cell of the stack when the direction is known leaves
\* the hits and the direction as they were, and the stack holds the cell at
\* the opposite end of the hits when it is a cell of the board not shot,
\* nothing otherwise
C28_MissProbesOppositeEnd ==
    \A p \in Cells(board.size) :
        NotShot(board, p)
        => LET s == HuntStep(hunt, board, p)
           IN  (hunt.direction # "None" /\ InList(p, hunt.hit_stack) /\ s.ret = <<"miss">>)
               => /\ s.hunt.hits = hunt.hits
                  /\ s.hunt.direction = hunt.direction
                  /\ Elems(s.hunt.hit_stack) = Extremities(hunt, s.board, p)
                  /\ Len(s.hunt.hit_stack) <= 1

\* the hits of h that are not cells of the ship of b that the result names
HitsOffShip(h, b, result) ==
    SelectSeq(h.hits, LAMBDA c : \A i \in DOMAIN b.ships :
                                    b.ships[i].name = result[2] => ~InList(c, b.ships[i].positions))

\* C29: after the shot that sinks a ship the strategy still holds its hits
\* on the other ships, in their order, and holds no target and no direction
\* when no hit is left
C29_SunkKeepsOtherHits ==
    \A p \in Cells(board.size) :
        NotShot(board, p)
        => LET s == HuntStep(hunt, board, p)
           IN  s.ret[1] = "sunk"
               => /\ s.hunt.hits = HitsOffShip(hunt, s.board, s.ret)
                  /\ s.hunt.hits = <<>>
                     => (s.hunt.hit_stack = <<>> /\ s.hunt.direction = "None")

\* C30: when the stack is empty and a hit held has an open orthogonal
\* neighbour, get_next_target returns a target
C30_EmptyStackRegenerates ==
    (/\ hunt.hit_stack = <<>>
     /\ \E i \in DOMAIN hunt.hits : OpenNeighbours(board, hunt.hits[i]) # {})
    => get_next_target(hunt, board).ret # None

(***************************************************************************)
(* Properties of the turns of the AI and of the game                       *)
(***************************************************************************)
\* C31: whenever a position of the AI's hit_stack is a valid move,
\* evaluate_moves returns a position of the hit_stack
C31_HuntBeforeScoring ==
    LET e == evaluate_moves(ai_player, player_board)
    IN  (\E i \in DOMAIN ai_player.hit_stack : NotShot(player_board, ai_player.hit_stack[i]))
        => /\ e.raised = "none"
           /\ InList(e.ret, ai_player.hit_stack)

\* C31 as the code has it: evaluate_moves pops the last position of the
\* hit_stack and returns it when it is a valid move; otherwise the scores
\* decide, whatever else the hit_stack holds
C31_LastOfStackBeforeScoring ==
    LET e == evaluate_moves(ai_player, player_board)
        n == Len(ai_player.hit_stack)
    IN  /\ n > 0 => e.ai.hit_stack = SubSeq(ai_player.hit_stack, 1, n - 1)
        /\ (n > 0 /\ NotShot(player_board, ai_player.hit_stack[n]))
           => (e.raised = "none" /\ e.ret = ai_player.hit_stack[n])
        /\ (n > 0 /\ ~NotShot(player_board, ai_player.hit_stack[n])
                  /\ get_valid_moves(player_board) # <<>>)
           => (e.raised = "none" /\ e.ret = best_move(ai_player, player_board))

C31_Witness ==
    /\ last.op = "ai_turn"
    /\ ai_player.hit_stack # <<>>
    /\ ~NotShot(player_board, ai_player.hit_stack[Len(ai_player.hit_stack)])
    /\ \E i \in DOMAIN ai_player.hit_stack : NotShot(player_board, ai_player.hit_stack[i])
    /\ ~InList(best_move(ai_player, player_board), ai_player.hit_stack)

\* C32: player_turn on a position already shot on the AI's board returns
\* already_shot and leaves the game (the boards, the turn and the rows
\* recorded) as it was
C32_AlreadyShotIsNoOp ==
    \A i \in DOMAIN ai_board.shots :
        LET o == player_turn(GM, ai_board.shots[i])
        IN  /\ o.ret = <<"already_shot">>
            /\ o.gm = GM

\* the cells one step before the first or after the last of the hits of h
\* along its direction, in the row (column) of any of the hits, and the
\* cells of its stack
ProbeCells(h) ==
    Elems(h.hit_stack)
    \cup (IF h.direction = "horizontal"
          THEN HitRows(h) \X {MinOf(HitCols(h)) - 1, MaxOf(HitCols(h)) + 1}
          ELSE IF h.direction = "vertical"
          THEN {MinOf(HitRows(h)) - 1, MaxOf(HitRows(h)) + 1} \X HitCols(h)
          ELSE {})

\* C33: a miss leaves the hits, the direction and the stack as they were
\* when the strategy has no direction, and when it has one and the missed
\* cell is not one of its probe cells
C33_MissLeavesStrategy ==
    \A p \in Cells(board.size) :
        NotShot(board, p)
        => LET s == HuntStep(hunt, board, p)
           IN  (s.ret = <<"miss">> /\ (hunt.direction = "None" \/ p \notin ProbeCells(hunt)))
               => s.hunt = hunt

\* C34: a horizontal direction goes with hits that share one row, a
\* vertical one with hits that share one column, fewer than two hits with
\* no direction, and with a direction every cell of the stack is on the row
\* (column) of the hits
C34_DirectionMatchesHits ==
    /\ hunt.direction = "horizontal"
       => /\ \A i \in DOMAIN hunt.hits : hunt.hits[i][1] = hunt.hits[1][1]
          /\ \A k \in DOMAIN hunt.hit_stack : hunt.hit_stack[k][1] = hunt.hits[1][1]
    /\ hunt.direction = "vertical"
       => /\ \A i \in DOMAIN hunt.hits : hunt.hits[i][2] = hunt.hits[1][2]
          /\ \A k \in DOMAIN hunt.hit_stack : hunt.hit_stack[k][2] = hunt.hits[1][2]
    /\ Len(hunt.hits) < 2 => hunt.direction = "None"

(***************************************************************************)
(* GameManager.is_game_over and get_winner  (src/models/game_manager.py)   *)
(***************************************************************************)
is_game_over(gm) == all_ships_sunk(gm.player_board) \/ all_ships_sunk(gm.ai_board)

\* get_winner testing the AI's board first
get_winner_AiBoardFirst(gm) ==
    IF all_ships_sunk(gm.ai_board) THEN "player"
    ELSE IF all_ships_sunk(gm.player_board) THEN "ai"
    ELSE "None"

get_winner(gm) ==
    IF all_ships_sunk(gm.player_board) THEN "ai"
    ELSE IF all_ships_sunk(gm.ai_board) THEN "player"
    ELSE "None"

(***************************************************************************)
(* The AI's turns when turns keep being played: the GUI schedules the next *)
(* AI turn after every shot of the player until the game is over, so an AI *)
(* turn that can be played is played.  This is weak fairness of AiTurnCall,*)
(* WF_vars(AiTurnCall), written out as                                     *)
(*    []<>(~ENABLED <<AiTurnCall>>_vars) \/ []<><<AiTurnCall>>_vars        *)
(* with the two tests in the terms of the state: AiTurnCall can change the *)
(* state when evaluate_moves has a move to pop or a valid move to score,   *)
(* or when the ValueError it raises is not yet the last result; a step     *)
(* that changes the state and leaves last.op = "ai_turn" is an AiTurnCall. *)
(***************************************************************************)
\* ENABLED <<AiTurnCall>>_vars, from the definition of ai_turn
AiTurnEnabled ==
    /\ last.op \in {"initialize_game", "ai_turn"}
    /\ \E o \in ai_turn(player_board, ai_player, InitialTurn) :
          <<o.player_board, o.ai, [op |-> "ai_turn", ret |-> o.ret]>>
             # <<player_board, ai_player, last>>

\* the same, from the tests of evaluate_moves
AiCanMove ==
    /\ last.op \in {"initialize_game", "ai_turn"}
    /\ \/ ai_player.hit_stack # <<>>
       \/ get_valid_moves(player_board) # <<>>
       \/ last.ret # <<"ValueError">>

AiTurnFairness == []<>(~AiCanMove) \/ []<><<last'.op = "ai_turn">>_vars

SpecAiTurnsFair == InitAiTurns /\ [][NextAiTurns]_vars /\ AiTurnFairness

\* C35: once the game is initialized and AI turns keep being played, every
\* ship on the player's board is eventually sunk (is_game_over() is then
\* true), with no more than N*N shots on the player's board
C35_GameTerminates ==
    (last.op = "initialize_game")
        ~> (/\ all_ships_sunk(player_board)
            /\ is_game_over(GM)
            /\ Len(player_board.shots) <= player_board.size * player_board.size)

C35_Witness ==
    /\ last.op = "ai_turn"
    /\ Len(player_board.ships) = FleetCount
    /\ all_ships_sunk(player_board)
    /\ is_game_over(GM)

\* the state test of AiTurnFairness is the enabling condition of AiTurnCall
AiCanMoveIsEnabled == AiCanMove <=> AiTurnEnabled

(***************************************************************************)
(* BattleshipGUI  (src/ui/gui.py): the handlers of the click on the enemy  *)
(* grid, of the two root.after timers and of the new game button.  A       *)
(* handler runs to its end before the next event is handled.               *)
(***************************************************************************)
\* BattleshipGUI.end_game
end_game(g) == [g EXCEPT !.game_over = TRUE]

\* BattleshipGUI.animate_shot_result: the first call shows the text and
\* re-arms itself after 300 ms, the second ends the animation and ends the
\* game or arms the AI's turn after 1000 ms
animate_shot_result(g, gm) ==
    IF ~g.animation_in_progress
    THEN g
    ELSE IF g.animation_step = 0
    THEN [g EXCEPT !.animation_step = @ + 1, !.pending.animate_shot_result = @ + 1]
    ELSE LET g1 == [g EXCEPT !.animation_in_progress = FALSE, !.animation_step = 0]
         IN  IF is_game_over(gm)
             THEN end_game(g1)
             ELSE [g1 EXCEPT !.pending.ai_turn = @ + 1]

\* BattleshipGUI.on_ai_grid_click on the cell position: the GUI and the
\* game after the handler, and the result of game.player_turn (None when
\* the handler returns before the shot)
on_ai_grid_click(g, gm, position) ==
    IF g.game_over \/ g.animation_in_progress
    THEN [gui |-> g, gm |-> gm, ret |-> <<"None">>]
    ELSE IF ~g.player_turn_active
    THEN [gui |-> g, gm |-> gm, ret |-> <<"None">>]
    ELSE IF position \notin Cells(gm.ai_board.size)
    THEN [gui |-> g, gm |-> gm, ret |-> <<"None">>]
    ELSE IF InList(position, gm.ai_board.shots)
    THEN [gui |-> g, gm |-> gm, ret |-> <<"None">>]
    ELSE LET o == player_turn(gm, position)
             g1 == [g EXCEPT !.player_turn_active = FALSE,
                             !.animation_in_progress = TRUE]
         IN  [gui |-> animate_shot_result(g1, o.gm), gm |-> o.gm, ret |-> o.ret]

\* BattleshipGUI.ai_turn: game.ai_turn(), then the end of the game or the
\* player's turn; the exception of game.ai_turn ends the handler
BattleshipGUI_ai_turn(g, gm) ==
    {IF o.position = None
     THEN [gui |-> g, gm |-> [gm EXCEPT !.ai_player = o.ai], ret |-> o.ret]
     ELSE LET gm1 == [gm EXCEPT !.player_board = o.player_board, !.ai_player = o.ai]
          IN  [gui |-> IF is_game_over(gm1)
                       THEN end_game(g)
                       ELSE [g EXCEPT !.player_turn_active = TRUE],
               gm |-> gm1, ret |-> o.ret] :
        o \in ai_turn(gm.player_board, gm.ai_player, gm.turn)}

\* the runs random.randint draws in the games of the GUI: horizontal, from
\* column 0, in the rows 0 .. MaxDrawRow
DrawnBoard(b) ==
    \A i \in DOMAIN b.ships :
       LET positions == b.ships[i].positions
       IN  positions # <<>> =>
              /\ positions[1][1] <= MaxDrawRow
              /\ positions[1][2] = 0
              /\ \A k \in DOMAIN positions : positions[k][1] = positions[1][1]

\* GameManager() and initialize_game() with these draws
DrawnGames ==
    {o \in initialize_game(NewBoard(AiBoardSize), NewBoard(AiBoardSize)) :
        DrawnBoard(o.ai_board) /\ DrawnBoard(o.player_board)}

\* BattleshipGUI.new_game: a new GameManager, whose AIPlayer reads the rows
\* of the data file again, and the flags reset; animation_step and the
\* timers pending are left as they are
new_game(g, gm) ==
    {[gui |-> [g EXCEPT !.game_over = FALSE, !.animation_in_progress = FALSE,
                        !.player_turn_active = TRUE, !.new_games = @ + 1],
      gm |-> [player_board |-> o.player_board, ai_board |-> o.ai_board,
              ai_player |-> [NewAIPlayer EXCEPT !.game_data = gm.ai_player.game_data],
              turn |-> InitialTurn],
      ret |-> o.ret] : o \in DrawnGames}

(***************************************************************************)
(* The GUI under its events                                                *)
(***************************************************************************)
\* BattleshipGUI.__init__
InitGui ==
    /\ board = NewBoard(1)
    /\ ship = NoShip
    /\ hunt = NewHunt
    /\ ai_player = NewAIPlayer
    /\ turn = InitialTurn
    /\ gui = NewGui
    /\ \E o \in DrawnGames :
          /\ ai_board = o.ai_board
          /\ player_board = o.player_board
          /\ last = [op |-> "initialize_game", ret |-> o.ret]

\* what a handler leaves: the game, the GUI, and the result of the call
GuiStep(op, o) ==
    /\ player_board' = o.gm.player_board
    /\ ai_board' = o.gm.ai_board
    /\ ai_player' = o.gm.ai_player
    /\ turn' = o.gm.turn
    /\ gui' = o.gui
    /\ last' = [op |-> op, ret |-> o.ret]
    /\ UNCHANGED <<hunt, board, ship>>

\* a click on the cell position of the enemy grid
ClickCall(position) ==
    /\ turn < MaxGuiTurns
    /\ GuiStep("on_ai_grid_click", on_ai_grid_click(gui, GM, position))

\* the timer of root.after(300, self.animate_shot_result) runs
AnimateTimerCall ==
    /\ gui.pending.animate_shot_result > 0
    /\ GuiStep("animate_shot_result",
               [gui |-> animate_shot_result(
                           [gui EXCEPT !.pending.animate_shot_result = @ - 1], GM),
                gm |-> GM, ret |-> <<"None">>])

\* the timer of root.after(1000, self.ai_turn) runs
AiTurnTimerCall ==
    /\ gui.pending.ai_turn > 0
    /\ \E o \in BattleshipGUI_ai_turn([gui EXCEPT !.pending.ai_turn = @ - 1], GM) :
          GuiStep("ai_turn", o)

\* the new game button
NewGameCall ==
    /\ gui.new_games < MaxNewGames
    /\ \E o \in new_game(gui, GM) : GuiStep("new_game", o)

NextGui ==
    \/ \E position \in PlayerCells(ai_board.size) : ClickCall(position)
    \/ AnimateTimerCall
    \/ AiTurnTimerCall
    \/ NewGameCall

SpecGui == InitGui /\ [][NextGui]_vars

\* C36: the shots on the AI's board are as many as the shots on the
\* player's board or one more, and a click while the animation or the AI's
\* turn is pending fires no shot
C36_TurnsAlternate ==
    /\ Len(ai_board.shots) - Len(player_board.shots) \in {0, 1}
    /\ \A position \in Cells(ai_board.size) :
          (gui.animation_in_progress \/ gui.pending.ai_turn > 0)
             => on_ai_grid_click(gui, GM, position).gm = GM

\* C37: after new_game the player's board of the new game has no shot as
\* long as the player has not fired in the new game
C37_NewGameAbandonsOld ==
    (gui.new_games > 0 /\ ai_board.shots = <<>>) => player_board.shots = <<>>

\* C38: when is_game_over() is true, a step other than new_game leaves the
\* shots of both boards as they are
C38_NoShotAfterGameOver ==
    [][(is_game_over(GM) /\ last'.op # "new_game")
          => /\ ai_board'.shots = ai_board.shots
             /\ player_board'.shots = player_board.shots]_vars

\* C40: right after initialize_game, whatever it returned, is_game_over()
\* is false and get_winner() is None; and when is_game_over() is true a
\* shot has been fired
C40_NotOverBeforeShot ==
    /\ last.op = "initialize_game" => (~is_game_over(GM) /\ get_winner(GM) = "None")
    /\ (last.op # "none" /\ is_game_over(GM))
          => (ai_board.shots # <<>> \/ player_board.shots # <<>>)

(***************************************************************************)
(* A game played by alternating turns, as the GUI plays it: the player     *)
(* first, then the AI, until is_game_over()                                *)
(***************************************************************************)
\* game.initialize_game() with the draws of DrawnBoard, whatever it returns
PlayInitializeCall ==
    /\ last.op = "none"
    /\ \E o \in initialize_game(ai_board, player_board) :
          /\ DrawnBoard(o.ai_board) /\ DrawnBoard(o.player_board)
          /\ ai_board' = o.ai_board
          /\ player_board' = o.player_board
          /\ last' = [op |-> "initialize_game", ret |-> o.ret]
    /\ UNCHANGED <<gui, hunt, turn, board, ship, ai_player>>

\* the cells the player fires at: the first cells not shot yet
SweepCells(b) ==
    Elems(SubSeq(get_valid_moves(b), 1, MinOf({Len(get_valid_moves(b)), MaxSweepCells})))

\* game.player_turn(position) when it is the player's turn
PlayPlayerTurnCall(position) ==
    /\ last.op # "none"
    /\ ~is_game_over(GM)
    /\ Len(ai_board.shots) = Len(player_board.shots)
    /\ LET o == player_turn(GM, position)
       IN  /\ player_board' = o.gm.player_board
           /\ ai_board' = o.gm.ai_board
           /\ ai_player' = o.gm.ai_player
           /\ turn' = o.gm.turn
           /\ last' = [op |-> "player_turn", ret |-> o.ret]
    /\ UNCHANGED <<gui, hunt, board, ship>>

\* game.ai_turn() when it is the AI's turn
PlayAiTurnCall ==
    /\ last.op # "none"
    /\ ~is_game_over(GM)
    /\ Len(ai_board.shots) = Len(player_board.shots) + 1
    /\ \E o \in ai_turn(player_board, ai_player, turn) :
          /\ player_board' = o.player_board
          /\ ai_player' = o.ai
          /\ last' = [op |-> "ai_turn", ret |-> o.ret]
    /\ UNCHANGED <<gui, hunt, ai_board, turn, board, ship>>

NextPlay ==
    \/ PlayInitializeCall
    \/ \E position \in SweepCells(ai_board) : PlayPlayerTurnCall(position)
    \/ PlayAiTurnCall

SpecPlay == InitGame /\ [][NextPlay]_vars

\* C39 as stated: None iff the game is not over, 'ai' iff every ship of
\* the player's board is sunk, 'player' iff every ship of the AI's board is
\* sunk, and in a game the two boards are not both defeated
C39_WinnerIffBoardSunk ==
    /\ (get_winner(GM) = "None") <=> ~is_game_over(GM)
    /\ (get_winner(GM) = "ai") <=> all_ships_sunk(player_board)
    /\ (get_winner(GM) = "player") <=> all_ships_sunk(ai_board)
    /\ last.op # "none" => ~(all_ships_sunk(player_board) /\ all_ships_sunk(ai_board))

\* C39: None iff the game is not over, 'ai' iff every ship of the player's
\* board is sunk, 'player' iff every ship of the AI's board is sunk and not
\* every ship of the player's board is; once initialize_game was called the
\* two boards are not both defeated
C39_WinnerAiBeforePlayer ==
    /\ (get_winner(GM) = "None") <=> ~is_game_over(GM)
    /\ (get_winner(GM) = "ai") <=> all_ships_sunk(player_board)
    /\ (get_winner(GM) = "player")
          <=> (all_ships_sunk(ai_board) /\ ~all_ships_sunk(player_board))
    /\ last.op # "none" => ~(all_ships_sunk(player_board) /\ all_ships_sunk(ai_board))

C39_Witness ==
    /\ last.op = "player_turn"
    /\ Len(ai_board.ships) = FleetCount
    /\ all_ships_sunk(ai_board)
    /\ get_winner(GM) = "player"

====
